---- MODULE Spec2Model ----
(***************************************************************************)
(* bloc: a git-like version-control tool (martian56/bloc, Rust).           *)
(*                                                                         *)
(* The state is the content of one working directory: the working-tree     *)
(* files, the optional .blocignore, the non-bare metadata directory .bloc  *)
(* (HEAD, config, index, refs/heads, objects) and the bare markers that    *)
(* `init --bare` writes at the root.  Every command line is one process:   *)
(* it opens the repository (BlocRepo::new), runs one handler and exits, so *)
(* each action below is one whole command.  The section on overlapping     *)
(* commands is the exception: there two processes run at once and every    *)
(* action is one file-system call of one of them.                          *)
(*                                                                         *)
(* Text (file contents, branch names, paths) is a sequence of tokens; a    *)
(* token stands for a run of characters that no operation of the program   *)
(* splits ("ref: ", "refs/heads/", "main", "\n", a hex digest, ...).        *)
(* SHA-256 is taken as collision-free: the digest of some bytes is a token *)
(* that determines them.  File-system calls fail only for the reasons the  *)
(* directory content gives (no such file, a directory, bytes that are not  *)
(* UTF-8); disk faults are not modelled.                                   *)
(***************************************************************************)
EXTENDS Integers, Sequences, FiniteSets, TLC

VARIABLES
    wt,          \* working-tree files: path -> Some(bytes) | None
    blocignore,  \* .blocignore: Some(sequence of lines) | None
    blocDir,     \* TRUE iff the directory .bloc exists
    HEAD,        \* content of .bloc/HEAD (text)
    config,      \* content of .bloc/config (the decoded record)
    indexFile,   \* content of .bloc/index (the JSON document)
    refs,        \* .bloc/refs/heads: file name -> Some(text) | None
    objects,     \* .bloc/objects: hash -> bytes, for the objects present
    bareRoot,    \* the bare layout at the root: None | Some([HEAD, config])
    subdirs,     \* the directories sub and sub/sub: None | Some(the layout there)
    now,         \* the wall clock (Utc::now())
    made,        \* history: while linear, message and author of every commit
                 \* made, oldest first
    linear,      \* history: no branch command has written since init
    procs        \* the staging commands in flight, for the runs that overlap

vars == <<wt, blocignore, blocDir, HEAD, config, indexFile, refs, objects,
          bareRoot, subdirs, now, made, linear, procs>>

-----------------------------------------------------------------------------
(* Bounds of the model *)

\* the number of commit objects the store may hold
MaxCommits == 2
\* the last tick of the wall clock
MaxTime == 1

-----------------------------------------------------------------------------
(* Option values and text *)

None == [some |-> FALSE]
Some(v) == [some |-> TRUE, v |-> v]

\* a token of literal characters
T(s) == [c |-> s]

\* str::starts_with
StartsWith(s, p) == Len(s) >= Len(p) /\ SubSeq(s, 1, Len(p)) = p

\* str::ends_with
EndsWith(s, p) == Len(s) >= Len(p) /\ SubSeq(s, Len(s) - Len(p) + 1, Len(s)) = p

\* str::contains
Contains(s, p) == \E i \in 1..(Len(s) + 1) :
                     i + Len(p) - 1 <= Len(s) /\ SubSeq(s, i, i + Len(p) - 1) = p

\* char::is_whitespace
IsSpace(t) == t \in {T(" "), T("\n")}

RECURSIVE TrimEnd(_)
TrimEnd(s) == IF s # <<>> /\ IsSpace(s[Len(s)]) THEN TrimEnd(SubSeq(s, 1, Len(s) - 1)) ELSE s

RECURSIVE TrimStart(_)
TrimStart(s) == IF s # <<>> /\ IsSpace(s[1]) THEN TrimStart(Tail(s)) ELSE s

\* str::trim
Trim(s) == TrimStart(TrimEnd(s))

\* str::strip_prefix
StripPrefix(s, p) == IF StartsWith(s, p) THEN Some(SubSeq(s, Len(p) + 1, Len(s))) ELSE None

\* Option::unwrap_or
UnwrapOr(o, d) == IF o.some THEN o.v ELSE d

-----------------------------------------------------------------------------
(* The inputs the command line is given *)

\* branch names: the empty name, two plain names, and "./main", which the
\* file system resolves to the same file as "main"
Names == {<<>>, <<T("main")>>, <<T("dev")>>, <<T("."), T("/"), T("main")>>}

\* the files refs/heads can hold
RefFiles == {"main", "dev"}

Messages == {"first", "second"}

\* working-tree paths (relative to the working directory)
PathA == <<T("a"), T(".txt")>>
PathB == <<T("b"), T(".txt")>>
PathC == <<T("c"), T(".bin")>>

\* file contents: text that decodes as UTF-8, and bytes that do not
Text(t) == [utf8 |-> TRUE, data |-> t]
Binary == [utf8 |-> FALSE, data |-> "\\xff"]

\* str::len of the texts used
ByteLen(t) == CASE t = "hello" -> 5
                [] t = "bye" -> 3
                [] OTHER -> 0

-----------------------------------------------------------------------------
(* BlocConfig *)

\* impl Default for BlocConfig
DefaultConfig == [user |-> [name |-> "Bloc User", email |-> "user@bloc.local"],
                  remotes |-> <<>>,
                  core |-> [bare |-> FALSE, default_branch |-> <<T("main")>>]]

-----------------------------------------------------------------------------
(* The staging index and its JSON file *)

\* Index::new
EmptyIndex == <<>>

\* serde_json::to_string_pretty(&Index): the document lists one member per entry
IndexToJson(idx) == [entries |-> {[key |-> p, value |-> idx[p]] : p \in DOMAIN idx}]

\* serde_json::from_str::<Index>
IndexFromJson(doc) == [p \in {m.key : m \in doc.entries} |->
                          (CHOOSE m \in doc.entries : m.key = p).value]

\* the bytes of the index file are a JSON document of an Index
IndexValid(file) == "entries" \in DOMAIN file

\* the index file right after File::create has truncated it
Truncated == [bytes |-> 0]

\* no index file in .bloc
Missing == [missing |-> TRUE]

\* Path::exists of the index file
IndexExists(file) == "missing" \notin DOMAIN file

\* an index file that holds the text a ref write put there
TextFile(text) == [text |-> text]

\* the length of the bytes of an index file, in entries: the entries used here
\* are equally long (paths, hashes and timestamps of the same width)
DocLen(file) ==
    IF IndexValid(file) THEN 1 + Cardinality(file.entries)
    ELSE IF "bytes" \in DOMAIN file THEN file.bytes
    ELSE IF "text" \in DOMAIN file THEN Len(file.text)
    ELSE 0

\* write_all at offset 0 of a file that is not truncated again: the bytes
\* written, followed by what the file held beyond them; a document followed by
\* the tail of a longer one is no JSON document
FileOverlay(written, existing) ==
    IF DocLen(written) >= DocLen(existing) THEN written
    ELSE [bytes |-> DocLen(existing)]

-----------------------------------------------------------------------------
(* HEAD *)

\* format!("ref: refs/heads/{}\n", ..) of BlocRepo::init
InitHeadContent(branch) == <<T("ref: "), T("refs/heads/")>> \o branch \o <<T("\n")>>

\* BlocRepo::get_current_branch, on the content of HEAD
get_current_branch(head) ==
    IF StartsWith(head, <<T("ref: ")>>)
    THEN LET branch_ref == StripPrefix(Trim(head), <<T("ref: ")>>).v
         IN  UnwrapOr(StripPrefix(branch_ref, <<T("refs/heads/")>>), branch_ref)
    ELSE <<T("(detached HEAD)")>>

-----------------------------------------------------------------------------
(* Paths under refs/heads *)

\* refs_dir.join("heads").join(name), as the file system resolves it: "." steps
\* and separators are dropped, the empty path is the directory refs/heads
\* itself, and ../../index is the file .bloc/index (the names used have at
\* most one step that names a file, and climb out of refs/heads only so)
RefTarget(name) ==
    LET comps == SelectSeq(name, LAMBDA t : t \notin {T("."), T("/")})
    IN  IF comps = <<>> THEN [dir |-> TRUE, index |-> FALSE]
        ELSE IF comps = <<T(".."), T(".."), T("index")>>
        THEN [dir |-> FALSE, index |-> TRUE, file |-> "../../index"]
        ELSE [dir |-> FALSE, index |-> FALSE, file |-> comps[1].c]

\* Path::exists
PathExists(rf, name) ==
    LET t == RefTarget(name)
    IN  IF t.dir THEN TRUE
        ELSE IF t.index THEN IndexExists(indexFile)
        ELSE t.file \in DOMAIN rf /\ rf[t.file].some

\* fs::read_to_string: Some(text), or None for an io::Error (a directory, no file)
ReadToString(rf, name) ==
    LET t == RefTarget(name)
    IN  IF t.dir THEN None
        ELSE IF t.index
        THEN IF ~IndexExists(indexFile) THEN None
             \* the text a ref write put there, else the JSON document as one
             \* run of characters
             ELSE IF "text" \in DOMAIN indexFile THEN Some(indexFile.text)
             ELSE Some(<<[doc |-> indexFile]>>)
        ELSE IF t.file \notin DOMAIN rf THEN None
        ELSE rf[t.file]

\* an fs::write that puts the text into every ref file
WriteRef_every(rf, name, text) == [f \in DOMAIN rf |-> Some(text)]

\* fs::write(path, text), as refs/heads sees it; nothing is written when the
\* path is a directory
WriteRef(rf, name, text) ==
    IF RefTarget(name).dir \/ RefTarget(name).index THEN rf
    ELSE [f \in DOMAIN rf \cup {RefTarget(name).file} |->
             IF f = RefTarget(name).file THEN Some(text) ELSE rf[f]]

\* fs::write(path, text), as the index file sees it
WriteIndexFile(file, name, text) ==
    IF RefTarget(name).index THEN TextFile(text) ELSE file

\* fs::remove_file(path), as refs/heads sees it; nothing is removed when the
\* path is a directory
RemoveRef(rf, name) ==
    IF RefTarget(name).dir \/ RefTarget(name).index THEN rf
    ELSE [f \in DOMAIN rf |-> IF f = RefTarget(name).file THEN None ELSE rf[f]]

\* fs::remove_file(path), as the index file sees it
RemoveIndexFile(file, name) ==
    IF RefTarget(name).index THEN Missing ELSE file

\* fs::rename(old, new) of a file onto a path where nothing is, as refs/heads
\* sees it
RenameRef(rf, old, new) ==
    IF RefTarget(old).dir \/ RefTarget(new).dir THEN rf
    ELSE [f \in DOMAIN rf \cup ({RefTarget(new).file} \ {"../../index"}) |->
             IF f = RefTarget(new).file THEN ReadToString(rf, old)
             ELSE IF f = RefTarget(old).file THEN None
             ELSE rf[f]]

\* fs::rename(old, new), as the index file sees it
RenameIndexFile(rf, file, old, new) ==
    IF RefTarget(old).dir \/ RefTarget(new).dir THEN file
    ELSE IF RefTarget(old).index THEN Missing
    ELSE IF RefTarget(new).index THEN TextFile(ReadToString(rf, old).v)
    ELSE file

\* format!("ref: refs/heads/{}", name) of checkout and rename_branch
HeadContent(name) == <<T("ref: "), T("refs/heads/")>> \o name

-----------------------------------------------------------------------------
(* The object store *)

\* a digest that is the same for all bytes
hash_object_const(content) == <<[hex |-> "0"]>>

\* Sha256 of the bytes, as format!("{:x}") prints it: one token of hex digits,
\* a different one for different bytes
hash_object(content) == <<[hex |-> content]>>

\* an fs::write that empties the objects directory first
PutObject_alone(objs, hash, content) == [h \in {hash} |-> content]

\* an fs::write that appends to the file that is already there
PutObject_append(objs, hash, content) ==
    [h \in DOMAIN objs \cup {hash} |->
        IF h # hash THEN objs[h]
        ELSE IF h \in DOMAIN objs THEN [utf8 |-> FALSE, data |-> "twice"]
        ELSE content]

\* fs::write(objects/<hash[..2]>/<hash[2..]>, content)
PutObject(objs, hash, content) ==
    [h \in DOMAIN objs \cup {hash} |-> IF h = hash THEN content ELSE objs[h]]

\* Path::exists of objects/<hash[..2]>/<hash[2..]>
HasObject(objs, hash) == hash \in DOMAIN objs

\* a write_object that returns the hash and writes no file
write_object_dry(objs, content) == [hash |-> hash_object(content), objects |-> objs]

\* BlocRepo::write_object: the hash returned and the store afterwards
write_object(objs, content) ==
    LET hash == hash_object(content)
    IN  [hash |-> hash, objects |-> PutObject(objs, hash, content)]

\* BlocRepo::read_object: Some(bytes), or None for the io::Error NotFound
read_object(objs, hash) == IF HasObject(objs, hash) THEN Some(objs[hash]) ELSE None

-----------------------------------------------------------------------------
(* Opening a repository, and what a command leaves behind *)

\* BlocRepo::is_repo
is_repo == blocDir \/ bareRoot.some

\* BlocRepo::is_bare_repo
is_bare_repo == bareRoot.some /\ ~blocDir

\* BlocRepo::new: "ok", or the kind of the io::Error
OpenResult ==
    IF ~blocDir THEN "NotFound"
    ELSE IF IndexExists(indexFile) /\ ~IndexValid(indexFile) THEN "InvalidData"
    ELSE "ok"

\* BlocConfig::load, as BlocRepo::new calls it
load_config == IF blocDir THEN config ELSE DefaultConfig

\* what main does before every repository command: is_repo, then BlocRepo::new
CanOpen == is_repo /\ OpenResult = "ok"

\* Index::load, as BlocRepo::new calls it
LoadIndex == IF IndexValid(indexFile) THEN IndexFromJson(indexFile) ELSE EmptyIndex

\* the result of a handler that returns before it writes anything: status is
\* "ok", "soft" (Ok(()) after a message that reports a failure) or "err" (Err)
Unchanged(status, detail) ==
    [status |-> status, detail |-> detail, wrote |-> FALSE,
     HEAD |-> HEAD, refs |-> refs, objects |-> objects,
     indexFile |-> indexFile, index |-> LoadIndex]

\* the result of a handler that wrote
Wrote(status, detail) == [Unchanged(status, detail) EXCEPT !.wrote = TRUE]

-----------------------------------------------------------------------------
(* branches.rs *)

\* get_current_commit_hash: Some(hash), or None for Err
get_current_commit_hash ==
    LET current_branch == get_current_branch(HEAD)
        text == ReadToString(refs, current_branch)
    IN  IF PathExists(refs, current_branch) /\ text.some THEN Some(Trim(text.v)) ELSE None

\* a create_branch that writes the ref whatever is there
create_branch_always(name) ==
    [Wrote("ok", "") EXCEPT
        !.refs = WriteRef(refs, name, UnwrapOr(get_current_commit_hash, <<>>))]

\* a create_branch that also switches to the branch it creates
create_branch_switch(name) ==
    IF PathExists(refs, name)
    THEN Unchanged("soft", "already exists")
    ELSE IF get_current_commit_hash.some
    THEN [Wrote("ok", "") EXCEPT !.refs = WriteRef(refs, name, get_current_commit_hash.v),
                                 !.HEAD = HeadContent(name)]
    ELSE Unchanged("soft", "no commits yet")

\* create_branch(repo, name)
create_branch(name) ==
    IF PathExists(refs, name)
    THEN Unchanged("soft", "already exists")
    ELSE IF get_current_commit_hash.some
    THEN [Wrote("ok", "") EXCEPT
            !.refs = WriteRef(refs, name, get_current_commit_hash.v),
            !.indexFile = WriteIndexFile(indexFile, name, get_current_commit_hash.v)]
    ELSE Unchanged("soft", "no commits yet")

\* a delete_branch that does not ask for --force
delete_branch_unforced(name, force) ==
    IF get_current_branch(HEAD) = name
    THEN Unchanged("soft", "currently checked out")
    ELSE IF ~PathExists(refs, name)
    THEN Unchanged("soft", "does not exist")
    ELSE IF RefTarget(name).dir
    THEN Unchanged("err", "io")
    ELSE [Wrote("ok", "") EXCEPT !.refs = RemoveRef(refs, name),
                                 !.indexFile = RemoveIndexFile(indexFile, name)]

\* delete_branch(repo, name, force)
delete_branch(name, force) ==
    IF get_current_branch(HEAD) = name
    THEN Unchanged("soft", "currently checked out")
    ELSE IF ~PathExists(refs, name)
    THEN Unchanged("soft", "does not exist")
    ELSE IF ~force
    THEN Unchanged("soft", "use --force")
    ELSE IF RefTarget(name).dir
    THEN Unchanged("err", "io")
    ELSE [Wrote("ok", "") EXCEPT !.refs = RemoveRef(refs, name),
                                 !.indexFile = RemoveIndexFile(indexFile, name)]

\* a listing that marks every branch
list_branches_all ==
    {[name |-> f, current |-> TRUE] : f \in {g \in DOMAIN refs : refs[g].some}}

\* list_branches(repo): the lines printed, one per file of refs/heads
list_branches ==
    LET current_branch == get_current_branch(HEAD)
    IN  {[name |-> f, current |-> (<<T(f)>> = current_branch)] :
            f \in {g \in DOMAIN refs : refs[g].some}}

\* a checkout that also empties the staging area
checkout_clearing(branch_name) ==
    IF ~PathExists(refs, branch_name)
    THEN Unchanged("soft", "does not exist")
    ELSE [Wrote("ok", "") EXCEPT !.HEAD = HeadContent(branch_name),
                                 !.indexFile = IndexToJson(EmptyIndex),
                                 !.index = EmptyIndex]

\* checkout(repo, branch_name)
checkout(branch_name) ==
    IF ~PathExists(refs, branch_name)
    THEN Unchanged("soft", "does not exist")
    ELSE [Wrote("ok", "") EXCEPT !.HEAD = HeadContent(branch_name)]

\* rename_branch(repo, old_name, new_name)
rename_branch(old_name, new_name) ==
    IF ~PathExists(refs, old_name)
    THEN Unchanged("soft", "does not exist")
    ELSE IF PathExists(refs, new_name)
    THEN Unchanged("soft", "already exists")
    ELSE IF RefTarget(old_name).dir
    THEN Unchanged("err", "io")
    ELSE [Wrote("ok", "") EXCEPT
            !.refs = RenameRef(refs, old_name, new_name),
            !.indexFile = RenameIndexFile(refs, indexFile, old_name, new_name),
            !.HEAD = IF Trim(HEAD) = HeadContent(old_name)
                     THEN HeadContent(new_name) ELSE HEAD]

-----------------------------------------------------------------------------
(* The ignore filter *)

\* one pattern line of .blocignore against a path (the body of the for loop of
\* BlocRepo::should_ignore); a pattern that is a single "*" makes the slice
\* &pattern[1..0] panic, and no ignore file used here has one
PatternMatches(pattern, path_str) ==
    \/ /\ EndsWith(pattern, <<T("/")>>)
       /\ LET dir_pattern == SubSeq(pattern, 1, Len(pattern) - 1)
          IN  \/ StartsWith(path_str, dir_pattern)
              \/ StartsWith(path_str, <<T("."), T("/")>> \o dir_pattern)
              \/ Contains(path_str, <<T("/")>> \o dir_pattern)
    \/ /\ Contains(pattern, <<T("*")>>)
       /\ IF StartsWith(pattern, <<T("*")>>) /\ EndsWith(pattern, <<T("*")>>)
          THEN Contains(path_str, SubSeq(pattern, 2, Len(pattern) - 1))
          ELSE IF StartsWith(pattern, <<T("*")>>)
          THEN EndsWith(path_str, Tail(pattern))
          ELSE IF EndsWith(pattern, <<T("*")>>)
          THEN StartsWith(path_str, SubSeq(pattern, 1, Len(pattern) - 1))
          ELSE FALSE
    \/ Contains(path_str, pattern)

\* a should_ignore that knows the patterns of the ignore file only
should_ignore_patterns(is_bare, ignore, path_str) ==
    IF is_bare THEN FALSE
    ELSE IF ignore.some
    THEN \E i \in 1..Len(ignore.v) :
            LET pattern == Trim(ignore.v[i])
            IN  /\ pattern # <<>>
                /\ ~StartsWith(pattern, <<T("#")>>)
                /\ PatternMatches(pattern, path_str)
    ELSE FALSE

\* BlocRepo::should_ignore
should_ignore(is_bare, ignore, path_str) ==
    IF is_bare THEN FALSE
    ELSE IF Contains(path_str, <<T(".bloc")>>) THEN TRUE
    ELSE IF ignore.some
    THEN \E i \in 1..Len(ignore.v) :
            LET pattern == Trim(ignore.v[i])
            IN  /\ pattern # <<>>
                /\ ~StartsWith(pattern, <<T("#")>>)
                /\ PatternMatches(pattern, path_str)
    ELSE FALSE

-----------------------------------------------------------------------------
(* commands.rs: add and reset *)

\* Path::strip_prefix("."), else the path as given
RelativePath(path) == UnwrapOr(StripPrefix(path, <<T("."), T("/")>>), path)

\* the working-tree file a path names: a leading "./" names the same file
FileOf(path) == UnwrapOr(StripPrefix(path, <<T("."), T("/")>>), path)

\* a file inside the metadata directory, there as soon as init has run
HeadFile == <<T(".bloc"), T("/"), T("HEAD")>>

\* the ignore file of the working root
IgnoreFile == <<T(".bloc"), T("ignore")>>

\* the files below the working root: the working tree, the ignore file and
\* the metadata
Files ==
    {q \in DOMAIN wt : wt[q].some}
        \cup (IF blocignore.some THEN {IgnoreFile} ELSE {})
        \cup (IF blocDir THEN {HeadFile} ELSE {})

\* the bytes of a file
FileContent(path) ==
    IF FileOf(path) \in DOMAIN wt THEN wt[FileOf(path)].v
    ELSE IF FileOf(path) = HeadFile THEN Text("ref: ")
    ELSE Text("")

\* Path::is_file
is_file(path) == FileOf(path) \in Files

\* the files WalkDir yields under a directory, as it spells them
WalkDir(dir) ==
    IF dir = <<T(".")>>
    THEN {<<T("."), T("/")>> \o p : p \in Files}
    ELSE {p \in Files : StartsWith(p, dir \o <<T("/")>>)}

\* Path::is_dir
is_dir(path) == path = <<T(".")>> \/ WalkDir(path) # {}

RECURSIVE Orders(_)
\* the sequences that list every element of a set once
Orders(S) ==
    IF S = {} THEN {<<>>}
    ELSE UNION {{<<x>> \o o : o \in Orders(S \ {x})} : x \in S}

\* the files one argument of add_files hands to add_single_file, in order
\* (walk is the order WalkDir yields the working tree in)
Candidates(pattern, walk) ==
    LET keep(path) == is_file(path) /\ ~should_ignore(config.core.bare, blocignore, path)
    IN  IF is_file(pattern)
        THEN IF keep(pattern) THEN <<pattern>> ELSE <<>>
        ELSE IF is_dir(pattern)
        THEN SelectSeq(walk, LAMBDA path : path \in WalkDir(pattern) /\ keep(path))
        ELSE <<>>

RECURSIVE AllCandidates(_, _)
AllCandidates(files, walk) ==
    IF files = <<>> THEN <<>>
    ELSE Candidates(Head(files), walk) \o AllCandidates(Tail(files), walk)

\* Index insertion: HashMap::insert(path, entry)
InsertEntry(idx, path, entry) ==
    [p \in DOMAIN idx \cup {path} |-> IF p = path THEN entry ELSE idx[p]]

\* an add_single_file that reads the bytes with fs::read and stages them as they are
add_single_file_bytes(st, path) ==
    LET content == FileContent(path)
        hash == hash_object(content)
        entry == [hash |-> hash, size |-> ByteLen(content.data), mode |-> "100644", mtime |-> now]
    IN  [ok |-> TRUE,
         wrote |-> TRUE,
         objects |-> PutObject(st.objects, hash, content),
         index |-> InsertEntry(st.index, RelativePath(path), entry)]

\* add_single_file: the index and the store afterwards, ok = FALSE for the io::Error
\* of fs::read_to_string on bytes that are not UTF-8
add_single_file(st, path) ==
    LET content == FileContent(path)
        hash == hash_object(content)
        entry == [hash |-> hash, size |-> ByteLen(content.data), mode |-> "100644", mtime |-> now]
    IN  IF ~content.utf8
        THEN [st EXCEPT !.ok = FALSE]
        ELSE [ok |-> TRUE,
              wrote |-> TRUE,
              objects |-> PutObject(st.objects, hash, content),
              index |-> InsertEntry(st.index, RelativePath(path), entry)]

\* the loop of add_files: the `?` leaves it at the first error
RECURSIVE AddLoop(_, _)
AddLoop(st, paths) ==
    IF paths = <<>> \/ ~st.ok THEN st
    ELSE AddLoop(add_single_file(st, Head(paths)), Tail(paths))

\* an add_files that saves the index on the way out of a failed loop as well
add_files_saving(files, walk) ==
    IF config.core.bare
    THEN Unchanged("soft", "bare repository")
    ELSE LET st == AddLoop([ok |-> TRUE, wrote |-> FALSE, objects |-> objects, index |-> LoadIndex],
                           AllCandidates(files, walk))
         IN  IF st.ok
             THEN [Wrote("ok", "") EXCEPT !.objects = st.objects, !.index = st.index,
                                          !.indexFile = IndexToJson(st.index)]
             ELSE [Wrote("err", "InvalidData") EXCEPT
                      !.objects = st.objects, !.index = st.index,
                      !.indexFile = IndexToJson(st.index)]

\* add_files(repo, files); walk is the order WalkDir yields the working tree in
add_files(files, walk) ==
    IF config.core.bare
    THEN Unchanged("soft", "bare repository")
    ELSE LET st == AddLoop([ok |-> TRUE, wrote |-> FALSE, objects |-> objects, index |-> LoadIndex],
                           AllCandidates(files, walk))
         IN  IF st.ok
             THEN [Wrote("ok", "") EXCEPT !.objects = st.objects, !.index = st.index,
                                          !.indexFile = IndexToJson(st.index)]
             ELSE [Unchanged("err", "InvalidData") EXCEPT
                      !.wrote = st.wrote, !.objects = st.objects, !.index = st.index]

\* a removal that clears the whole map
remove_entry_all(idx, path) == [p \in {} |-> idx[p]]

\* Index::remove_entry / HashMap::remove
remove_entry(idx, path) == [p \in DOMAIN idx \ {path} |-> idx[p]]

\* the loop of reset_files: the index afterwards
RECURSIVE ResetLoop(_, _)
ResetLoop(idx, files) ==
    IF files = <<>> THEN idx
    ELSE ResetLoop(remove_entry(idx, Head(files)), Tail(files))

\* a reset_files without the final repo.index.save()
reset_files_unsaved(files) ==
    IF config.core.bare
    THEN Unchanged("soft", "bare repository")
    ELSE LET idx == ResetLoop(LoadIndex, files)
             missing == {i \in DOMAIN files :
                           files[i] \notin DOMAIN ResetLoop(LoadIndex, SubSeq(files, 1, i - 1))}
         IN  [Wrote(IF missing = {} THEN "ok" ELSE "soft",
                    IF missing = {} THEN "" ELSE "not in staging area")
                EXCEPT !.index = idx]

\* reset_files(repo, files): soft when some file was "not in staging area"
reset_files(files) ==
    IF config.core.bare
    THEN Unchanged("soft", "bare repository")
    ELSE LET idx == ResetLoop(LoadIndex, files)
             missing == {i \in DOMAIN files :
                           files[i] \notin DOMAIN ResetLoop(LoadIndex, SubSeq(files, 1, i - 1))}
         IN  [Wrote(IF missing = {} THEN "ok" ELSE "soft",
                    IF missing = {} THEN "" ELSE "not in staging area")
                EXCEPT !.index = idx, !.indexFile = IndexToJson(idx)]

-----------------------------------------------------------------------------
(* commands.rs: commit, log and status *)

RECURSIVE JoinLines(_)
\* Vec::join("\n")
JoinLines(lines) ==
    IF lines = <<>> THEN <<>>
    ELSE IF Len(lines) = 1 THEN lines[1]
    ELSE lines[1] \o <<T("\n")>> \o JoinLines(Tail(lines))

\* a serialize_tree that stops after the first entry
serialize_tree_first(idx, order) ==
    IF order = <<>> THEN <<>> ELSE order[1] \o <<T(":")>> \o idx[order[1]].hash

\* serialize_tree: one line path:hash per entry, in the order the HashMap
\* iterates (order lists the keys of the index once each)
serialize_tree(idx, order) ==
    JoinLines([i \in DOMAIN order |-> order[i] \o <<T(":")>> \o idx[order[i]].hash])

\* serde_json::to_string_pretty(&commit).as_bytes()
CommitToJson(commit) == [utf8 |-> TRUE, json |-> commit]

\* serde_json::from_str::<Commit>: Some(commit), or None for bytes that are no commit
CommitFromJson(bytes) == IF "json" \in DOMAIN bytes THEN Some(bytes.json) ELSE None

\* the commit objects of a store
CommitHashes(objs) == {h \in DOMAIN objs : CommitFromJson(objs[h]).some}

\* a commit() that never reads the branch's ref: every commit is a root commit
commit_parent_root(rf, head) == Some(None)

\* the parent commit() reads: Some(Option<String>), or None when the read fails
commit_parent(rf, head) ==
    LET head_path == get_current_branch(head)
    IN  IF PathExists(rf, head_path)
        THEN IF ReadToString(rf, head_path).some
             THEN Some(Some(Trim(ReadToString(rf, head_path).v)))
             ELSE None
        ELSE Some(None)

\* the Commit record commit() builds
NewCommit(message, parent, tree) ==
    [message |-> message,
     author |-> config.user.name,
     committer |-> config.user.email,
     timestamp |-> now,
     parent |-> parent,
     tree |-> tree]

\* a commit() without the early return for an empty staging area
commit_unguarded(message, order) ==
    LET parent == commit_parent(refs, HEAD) IN
    IF ~parent.some
    THEN Unchanged("err", "io")
    ELSE LET record == NewCommit(message, parent.v, serialize_tree(LoadIndex, order))
             commit_json == CommitToJson(record)
             commit_hash == hash_object(commit_json)
         IN  [Wrote("ok", "") EXCEPT
                !.objects = PutObject(objects, commit_hash, commit_json),
                !.refs = WriteRef(refs, get_current_branch(HEAD), commit_hash),
                !.index = EmptyIndex,
                !.indexFile = IndexToJson(EmptyIndex)]

\* commit(repo, message); order is the order the HashMap iterates the index in
commit(message, order) ==
    IF LoadIndex = EmptyIndex
    THEN Unchanged("soft", "nothing to commit")
    ELSE LET parent == commit_parent(refs, HEAD) IN
         IF ~parent.some
         THEN Unchanged("err", "io")
         ELSE LET record == NewCommit(message, parent.v, serialize_tree(LoadIndex, order))
                  commit_json == CommitToJson(record)
                  commit_hash == hash_object(commit_json)
              IN  [Wrote("ok", "") EXCEPT
                     !.objects = PutObject(objects, commit_hash, commit_json),
                     !.refs = WriteRef(refs, get_current_branch(HEAD), commit_hash),
                     !.index = EmptyIndex,
                     !.indexFile = IndexToJson(EmptyIndex)]

\* a log that fails when a commit object is not in the store
RECURSIVE LogLoop_strict(_, _, _)
LogLoop_strict(objs, commit_hash, fuel) ==
    IF fuel = 0 \/ ~HasObject(objs, commit_hash) THEN [printed |-> <<>>, ok |-> FALSE]
    ELSE LET record == CommitFromJson(objs[commit_hash])
         IN  IF ~record.some THEN [printed |-> <<>>, ok |-> FALSE]
             ELSE LET entry == [hash |-> commit_hash, commit |-> record.v]
                  IN  IF record.v.parent.some
                      THEN LET rest == LogLoop_strict(objs, record.v.parent.v, fuel - 1)
                           IN  [printed |-> <<entry>> \o rest.printed, ok |-> rest.ok]
                      ELSE [printed |-> <<entry>>, ok |-> TRUE]

\* a log that prints the head commit and does not follow its parent
LogLoop_head(objs, commit_hash, fuel) ==
    IF HasObject(objs, commit_hash) /\ "json" \in DOMAIN objs[commit_hash]
    THEN [printed |-> <<[hash |-> commit_hash, commit |-> objs[commit_hash].json]>>,
          ok |-> TRUE]
    ELSE [printed |-> <<>>, ok |-> TRUE]

\* the loop of log: the commits printed from commit_hash on, and whether every
\* read succeeded; fuel bounds the walk by the number of objects
RECURSIVE LogLoop(_, _, _)
LogLoop(objs, commit_hash, fuel) ==
    IF fuel = 0 THEN [printed |-> <<>>, ok |-> FALSE]
    ELSE IF ~HasObject(objs, commit_hash) THEN [printed |-> <<>>, ok |-> TRUE]
    ELSE LET record == CommitFromJson(objs[commit_hash])
         IN  IF ~record.some THEN [printed |-> <<>>, ok |-> FALSE]
             ELSE LET entry == [hash |-> commit_hash, commit |-> record.v]
                  IN  IF record.v.parent.some
                      THEN LET rest == LogLoop(objs, record.v.parent.v, fuel - 1)
                           IN  [printed |-> <<entry>> \o rest.printed, ok |-> rest.ok]
                      ELSE [printed |-> <<entry>>, ok |-> TRUE]

\* log(repo, oneline): Some(the commits printed, newest first), None for an Err
log(rf, head, objs) ==
    LET head_path == get_current_branch(head)
    IN  IF ~PathExists(rf, head_path) THEN Some(<<>>)
        ELSE IF ~ReadToString(rf, head_path).some THEN None
        ELSE LET run == LogLoop(objs, Trim(ReadToString(rf, head_path).v),
                                Cardinality(DOMAIN objs) + 1)
             IN  IF run.ok THEN Some(run.printed) ELSE None

\* status(repo): the branch, the staged paths and the untracked files printed
status ==
    [branch |-> get_current_branch(HEAD),
     staged |-> DOMAIN LoadIndex,
     untracked |-> IF config.core.bare THEN {}
                   ELSE {RelativePath(path) : path \in
                           {q \in WalkDir(<<T(".")>>) :
                              /\ ~should_ignore(config.core.bare, blocignore, q)
                              /\ RelativePath(q) \notin DOMAIN LoadIndex}}]

-----------------------------------------------------------------------------
(* The command lines *)

\* one process on a repository main could open: the handler ran and left r behind
Run(cmd, args, r) ==
    /\ HEAD' = r.HEAD
    /\ refs' = r.refs
    /\ objects' = r.objects
    /\ indexFile' = r.indexFile
    /\ linear' = (linear /\ ~(r.wrote /\ cmd \in {"create_branch", "delete_branch",
                                                  "rename_branch", "checkout"}))
    /\ made' = IF ~linear' THEN <<>>
               ELSE IF cmd = "commit" /\ r.status = "ok"
               THEN Append(made, [message |-> args[1], author |-> config.user.name,
                                  hash |-> Trim(ReadToString(r.refs, get_current_branch(HEAD)).v)])
               ELSE made
    /\ UNCHANGED <<wt, blocignore, blocDir, config, bareRoot, subdirs, now, procs>>

\* the directories below the root; the root itself is the empty path
Sub == <<"sub">>
SubSub == <<"sub", "sub">>
SubDirs == {Sub, SubSub}

\* what init left in a directory: the directory .bloc (with HEAD and config in
\* it), the bare markers HEAD and config; None when the directory is not there
Layout(dir) ==
    IF dir = <<>> THEN Some([bloc |-> blocDir, bare |-> bareRoot.some])
    ELSE subdirs[dir]

\* BlocRepo::init(path, bare) of a process started in cwd.  A relative path
\* is kept as given in work_dir after set_current_dir(path), so bloc_dir
\* resolves against the new current directory: to cwd/path/path.
\*   target: the directory the path names (created when missing)
\*   root:   the directory bloc_dir is resolved in
init(cwd, path, bare) ==
    LET target == IF path.some THEN cwd \o path.v ELSE cwd
        root == IF path.some THEN target \o path.v ELSE cwd
        created == IF Layout(target).some THEN {} ELSE {target}
        there == Layout(root).some \/ root \in created
        marked == Layout(root).some
                  /\ IF bare THEN Layout(root).v.bare ELSE Layout(root).v.bloc
    IN  IF marked
        THEN [status |-> "AlreadyExists", root |-> root, created |-> created]
        ELSE IF ~bare /\ ~there
        THEN [status |-> "NotFound", root |-> root, created |-> created]
        ELSE [status |-> "ok", root |-> root, created |-> created \cup {root}]

\* BlocRepo::init(None, bare) in the root directory
InitRepo(bare) ==
    LET exists == init(<<>>, None, bare).status = "AlreadyExists"
        cfg    == [DefaultConfig EXCEPT !.core.bare = bare]
        head   == InitHeadContent(cfg.core.default_branch)
    IN  IF exists
        THEN UNCHANGED vars
        ELSE /\ IF bare
                THEN /\ bareRoot' = Some([HEAD |-> head, config |-> cfg])
                     /\ UNCHANGED <<blocDir, HEAD, config, indexFile, refs, objects,
                                    made, linear>>
                ELSE /\ blocDir' = TRUE
                     /\ HEAD' = head
                     /\ config' = cfg
                     /\ indexFile' = IndexToJson(EmptyIndex)
                     /\ refs' = [f \in RefFiles |-> None]
                     /\ objects' = <<>>
                     /\ made' = <<>>
                     /\ linear' = TRUE
                     /\ UNCHANGED bareRoot
             /\ UNCHANGED <<wt, blocignore, subdirs, now, procs>>

\* bloc init [path] [--bare], started in the directory cwd
InitAt(cwd, path, bare) ==
    /\ Layout(cwd).some
    /\ \E r \in {init(cwd, path, bare)} :
          IF r.root = <<>>
          THEN InitRepo(bare)
          ELSE /\ subdirs' =
                    [d \in SubDirs |->
                        IF d = r.root /\ r.status = "ok"
                        THEN Some([bloc |-> IF bare THEN (subdirs[d].some /\ subdirs[d].v.bloc)
                                            ELSE TRUE,
                                   bare |-> IF bare THEN TRUE
                                            ELSE (subdirs[d].some /\ subdirs[d].v.bare)])
                        ELSE IF d \in r.created /\ ~subdirs[d].some
                        THEN Some([bloc |-> FALSE, bare |-> FALSE])
                        ELSE subdirs[d]]
               /\ UNCHANGED <<wt, blocignore, blocDir, HEAD, config, indexFile, refs,
                              objects, bareRoot, now, made, linear, procs>>

AddFiles(files, walk) ==
    CanOpen /\ \E r \in {add_files(files, walk)} :
        Run("add", files, r)

ResetFiles(files) ==
    CanOpen /\ \E r \in {reset_files(files)} :
        Run("reset", files, r)

Commit(message, order) ==
    CanOpen /\ \E r \in {commit(message, order)} :
        Run("commit", <<message>>, r)

Log ==
    CanOpen /\ \E r \in {Unchanged("ok", "")} :
        Run("log", <<>>, r)

Status ==
    CanOpen /\ \E r \in {Unchanged("ok", "")} :
        Run("status", <<>>, r)

CreateBranch(name) ==
    CanOpen /\ \E r \in {create_branch(name)} :
        Run("create_branch", <<name>>, r)

DeleteBranch(name, force) ==
    CanOpen /\ \E r \in {delete_branch(name, force)} :
        Run("delete_branch", <<name, force>>, r)

ListBranches ==
    CanOpen /\ \E r \in {Unchanged("ok", "")} :
        Run("list_branches", <<>>, r)

RenameBranch(old_name, new_name) ==
    CanOpen /\ \E r \in {rename_branch(old_name, new_name)} :
        Run("rename_branch", <<old_name, new_name>>, r)

Checkout(branch_name) ==
    CanOpen /\ \E r \in {checkout(branch_name)} :
        Run("checkout", <<branch_name>>, r)

\* a repository command where main finds no repository, or BlocRepo::new fails:
\* the error is printed and nothing is touched
NoRepository ==
    /\ ~CanOpen
    /\ UNCHANGED vars

\* config set user.name <value>: BlocConfig::load, set_user, save
SetUserName(value) ==
    /\ blocDir
    /\ config' = [config EXCEPT !.user.name = value]
    /\ UNCHANGED <<wt, blocignore, blocDir, HEAD, indexFile, refs, objects,
                   bareRoot, subdirs, now, made, linear, procs>>

-----------------------------------------------------------------------------
(* Staging commands that overlap in time.  No lock is taken anywhere, so the *)
(* file-system calls of two invocations interleave; each step below is one   *)
(* call (or one run of calls that touch nothing another invocation reads).   *)

\* the invocations that can be in flight at once
Procs == {1, 2}

\* no process
Idle == [pc |-> "idle"]

\* run: the local state of every invocation; started: how many have opened the
\* repository; refWriter, indexWriter: the invocation that wrote the branch
\* ref, the index file, last
NoProcs ==
    [run |-> [p \in Procs |-> Idle], started |-> 0,
     refWriter |-> None, indexWriter |-> None]

\* the invocation has opened the repository and not yet written its index
Unsaved(p) ==
    procs.run[p].pc \in {"opened", "parent_read", "stored", "ref_open", "ref_written",
                         "staged", "index_open"}

\* a commit that leaves the ref alone when it no longer holds the parent read
RefAfterCommit_guarded(rf, branch, commit_hash, parent) ==
    IF (IF parent.some THEN ReadToString(rf, branch) = Some(parent.v)
        ELSE ~PathExists(rf, branch))
    THEN WriteRef(rf, branch, commit_hash)
    ELSE rf

\* a commit that never writes the hash into the ref
RefAfterCommit_kept(rf, branch, commit_hash, parent) == rf

\* write_all of fs::write(&head_path, &commit_hash): the ref files afterwards
\* (a ref holds nothing or one hash, so the bytes written cover what is there)
RefAfterCommit(rf, branch, commit_hash, parent) == WriteRef(rf, branch, commit_hash)

\* write_all of Index::save: the index file afterwards
IndexAfterSave(idx, file) == FileOverlay(IndexToJson(idx), file)

\* main and BlocRepo::new of add, reset or commit: config and index are loaded;
\* the invocations are numbered in the order they start
Open(p, cmd, args) ==
    /\ CanOpen
    /\ procs.run[p] = Idle
    /\ \A q \in Procs : q < p => procs.run[q] # Idle
    /\ procs' = [procs EXCEPT
          !.run[p] = [pc |-> "opened", cmd |-> cmd, args |-> args,
                      index |-> LoadIndex, loaded |-> LoadIndex,
                      beside |-> {q \in Procs \ {p} : Unsaved(q)},
                      branch |-> <<>>, parent |-> None, hash |-> <<>>, status |-> ""],
          !.started = @ + 1]
    /\ UNCHANGED <<wt, blocignore, blocDir, HEAD, config, indexFile, refs, objects,
                   bareRoot, subdirs, now, made, linear>>

\* commit, up to the read of the branch's ref
CommitReadParent(p) ==
    LET me == procs.run[p]
        parent == commit_parent(refs, HEAD)
    IN  /\ me.pc = "opened" /\ me.cmd = "commit"
        /\ procs' = [procs EXCEPT !.run[p] =
              IF me.index = EmptyIndex
              THEN [me EXCEPT !.pc = "done", !.status = "soft"]
              ELSE IF ~parent.some
              THEN [me EXCEPT !.pc = "done", !.status = "err"]
              ELSE [me EXCEPT !.pc = "parent_read",
                              !.branch = get_current_branch(HEAD),
                              !.parent = parent.v]]
        /\ UNCHANGED <<wt, blocignore, blocDir, HEAD, config, indexFile, refs, objects,
                       bareRoot, subdirs, now, made, linear>>

\* commit: the record is built at the time it is now, and its object written
CommitStore(p) ==
    LET me == procs.run[p]
    IN  /\ me.pc = "parent_read"
        /\ \E order \in Orders(DOMAIN me.index) :
              LET record == NewCommit(me.args[1], me.parent, serialize_tree(me.index, order))
                  commit_json == CommitToJson(record)
                  commit_hash == hash_object(commit_json)
              IN  /\ objects' = PutObject(objects, commit_hash, commit_json)
                  /\ procs' = [procs EXCEPT
                        !.run[p] = [me EXCEPT !.pc = "stored", !.hash = commit_hash]]
        /\ UNCHANGED <<wt, blocignore, blocDir, HEAD, config, indexFile, refs,
                       bareRoot, subdirs, now, made, linear>>

\* commit: File::create of fs::write(&head_path, ..) leaves the ref file empty
CommitTruncateRef(p) ==
    LET me == procs.run[p]
    IN  /\ me.pc = "stored"
        /\ refs' = WriteRef(refs, me.branch, <<>>)
        /\ indexFile' = WriteIndexFile(indexFile, me.branch, <<>>)
        /\ procs' = [procs EXCEPT !.run[p] = [me EXCEPT !.pc = "ref_open"]]
        /\ UNCHANGED <<wt, blocignore, blocDir, HEAD, config, objects,
                       bareRoot, subdirs, now, made, linear>>

\* commit: the hash is written into the branch's ref
CommitWriteRef(p) ==
    LET me == procs.run[p]
    IN  /\ me.pc = "ref_open"
        /\ refs' = RefAfterCommit(refs, me.branch, me.hash, me.parent)
        /\ indexFile' = WriteIndexFile(indexFile, me.branch, me.hash)
        /\ procs' = [procs EXCEPT !.run[p] = [me EXCEPT !.pc = "ref_written"],
                                  !.refWriter = Some(p)]
        /\ UNCHANGED <<wt, blocignore, blocDir, HEAD, config, objects,
                       bareRoot, subdirs, now, made, linear>>

\* add_files, up to the save: the objects are written, the entries inserted
\* into the copy of the index in memory
AddStage(p) ==
    LET me == procs.run[p]
        st == AddLoop([ok |-> TRUE, wrote |-> FALSE, objects |-> objects, index |-> me.index],
                      AllCandidates(me.args, <<>>))
    IN  /\ me.pc = "opened" /\ me.cmd = "add"
        /\ objects' = IF config.core.bare THEN objects ELSE st.objects
        /\ procs' = [procs EXCEPT !.run[p] =
              IF config.core.bare THEN [me EXCEPT !.pc = "done", !.status = "soft"]
              ELSE IF st.ok THEN [me EXCEPT !.pc = "staged", !.index = st.index,
                                            !.status = "ok"]
              ELSE [me EXCEPT !.pc = "done", !.status = "err", !.index = st.index]]
        /\ UNCHANGED <<wt, blocignore, blocDir, HEAD, config, indexFile, refs,
                       bareRoot, subdirs, now, made, linear>>

\* the copy of the index in memory when Index::save is called: add_files saves
\* what it staged, reset_files what its removals leave, commit the cleared index
IndexToSave(me) ==
    IF me.cmd = "commit" THEN EmptyIndex
    ELSE IF me.cmd = "reset" THEN ResetLoop(me.index, me.args)
    ELSE me.index

\* Index::save, File::create of fs::write: the index file is left empty
TruncateIndex(p) ==
    LET me == procs.run[p]
        missing == {i \in DOMAIN me.args :
                      me.args[i] \notin DOMAIN ResetLoop(me.index, SubSeq(me.args, 1, i - 1))}
    IN  /\ \/ me.pc = "ref_written"
           \/ me.pc = "staged"
           \/ me.pc = "opened" /\ me.cmd = "reset" /\ ~config.core.bare
        /\ indexFile' = Truncated
        /\ procs' = [procs EXCEPT !.run[p] =
              [me EXCEPT !.pc = "index_open",
                         !.index = IndexToSave(me),
                         !.status = IF me.cmd = "reset"
                                    THEN (IF missing = {} THEN "ok" ELSE "soft")
                                    ELSE "ok"]]
        /\ UNCHANGED <<wt, blocignore, blocDir, HEAD, config, refs, objects,
                       bareRoot, subdirs, now, made, linear>>

\* Index::save, write_all of fs::write: the document is written and the
\* command returns
WriteIndex(p) ==
    LET me == procs.run[p]
    IN  /\ me.pc = "index_open"
        /\ indexFile' = IndexAfterSave(me.index, indexFile)
        /\ procs' = [procs EXCEPT !.run[p] = [me EXCEPT !.pc = "done"],
                                  !.indexWriter = Some(p)]
        /\ UNCHANGED <<wt, blocignore, blocDir, HEAD, config, refs, objects,
                       bareRoot, subdirs, now, made, linear>>

\* a command that has ended before any of the overlapping ones starts
Before(command) == procs.started = 0 /\ command

-----------------------------------------------------------------------------
(* The object-store interface of BlocRepo, called on an opened repository *)

\* repo.write_object(content)
WriteObject(content) ==
    /\ CanOpen
    /\ objects' = write_object(objects, content).objects
    /\ UNCHANGED <<wt, blocignore, blocDir, HEAD, config, indexFile, refs,
                   bareRoot, subdirs, now, made, linear, procs>>

\* repo.read_object(hash): reads, writes nothing
ReadObject(hash) ==
    /\ CanOpen
    /\ read_object(objects, hash).some \in BOOLEAN
    /\ UNCHANGED vars

-----------------------------------------------------------------------------
(* The world around the commands *)

\* the wall clock advances
Tick ==
    /\ now < MaxTime
    /\ now' = now + 1
    /\ UNCHANGED <<wt, blocignore, blocDir, HEAD, config, indexFile, refs, objects,
                   bareRoot, subdirs, made, linear, procs>>

\* the user writes the ignore file of the working root, or removes it
WriteIgnore(content) ==
    /\ blocignore' = content
    /\ UNCHANGED <<wt, blocDir, HEAD, config, indexFile, refs, objects,
                   bareRoot, subdirs, now, made, linear, procs>>

\* the file of one commit object is removed from .bloc/objects from outside
LoseObject(hash) ==
    /\ CanOpen
    /\ hash \in CommitHashes(objects)
    /\ objects' = [h \in DOMAIN objects \ {hash} |-> objects[h]]
    /\ UNCHANGED <<wt, blocignore, blocDir, HEAD, config, indexFile, refs,
                   bareRoot, subdirs, now, made, linear, procs>>

-----------------------------------------------------------------------------
(* Specifications *)

\* a working tree with one text file and one file that is not UTF-8
SmallTree == (PathA :> Some(Text("hello"))) @@ (PathB :> None)
               @@ (PathC :> Some(Binary))

\* a working tree with two text files and one file that is not UTF-8
WorkTree == (PathA :> Some(Text("hello"))) @@ (PathB :> Some(Text("bye")))
              @@ (PathC :> Some(Binary))

\* the order WalkDir yields the working tree in, when an argument is a directory
WalkOrders(files) ==
    IF \E i \in DOMAIN files : ~is_file(files[i]) /\ is_dir(files[i])
    THEN Orders(WalkDir(<<T(".")>>))
    ELSE {<<>>}

\* the argument lists of add and reset
FileArgs == {<<PathA>>, <<PathC>>, <<<<T(".")>>>>, <<<<T("nope")>>>>}

\* the argument lists of add and reset on the larger working tree
StagingArgs == {<<PathA>>, <<PathB>>, <<PathC>>, <<PathA, PathB>>, <<PathB, PathC>>,
                <<<<T("."), T("/")>> \o PathA>>}

UserNames == {"Ada"}

\* the byte contents handed to write_object
Contents == {Text("hello"), Text("bye"), Text(""), Text("ref: "), Text("\n"), Binary}

\* an empty directory with the working tree in it: no repository yet
InitWith(tree) ==
    /\ wt = tree
    /\ blocignore = None
    /\ blocDir = FALSE
    /\ HEAD = <<>>
    /\ config = DefaultConfig
    /\ indexFile = IndexToJson(EmptyIndex)
    /\ refs = [f \in RefFiles |-> None]
    /\ objects = <<>>
    /\ bareRoot = None
    /\ subdirs = [d \in SubDirs |-> None]
    /\ now = 0
    /\ made = <<>>
    /\ linear = TRUE
    /\ procs = NoProcs

Init == InitWith(SmallTree)

\* a commit, while the store holds fewer than MaxCommits commit objects
BoundedCommit(messages) ==
    \E message \in messages : \E order \in Orders(DOMAIN LoadIndex) :
        /\ Cardinality(CommitHashes(objects)) < MaxCommits
        /\ Commit(message, order)

\* every repository command line of the tool
Next ==
    \/ \E bare \in BOOLEAN : InitRepo(bare)
    \/ \E files \in FileArgs : \E walk \in WalkOrders(files) : AddFiles(files, walk)
    \/ \E files \in FileArgs : ResetFiles(files)
    \/ BoundedCommit({"first"})
    \/ Log
    \/ Status
    \/ \E name \in Names : CreateBranch(name)
    \/ \E name \in Names, force \in BOOLEAN : DeleteBranch(name, force)
    \/ ListBranches
    \/ \E old \in Names, new \in Names : RenameBranch(old, new)
    \/ \E name \in Names : Checkout(name)
    \/ NoRepository

Spec == Init /\ [][Next]_vars

\* staging on the larger working tree: add, reset and commit of several paths
InitStaging == InitWith(WorkTree)

NextStaging ==
    \/ InitRepo(FALSE)
    \/ \E files \in StagingArgs : AddFiles(files, <<>>)
    \/ \E files \in StagingArgs : ResetFiles(files)
    \/ BoundedCommit({"first"})
    \/ Status
    \/ Tick

SpecStaging == InitStaging /\ [][NextStaging]_vars

\* the history of one branch: two commit messages, a change of user.name and
\* a clock that advances between the commits
NextHistory ==
    \/ InitRepo(FALSE)
    \/ AddFiles(<<PathA>>, <<>>)
    \/ BoundedCommit(Messages)
    \/ Log
    \/ \E value \in UserNames : SetUserName(value)
    \/ Tick

SpecHistory == Init /\ [][NextHistory]_vars

\* the history of one branch whose commit objects can disappear from the store
NextLoss ==
    \/ InitRepo(FALSE)
    \/ AddFiles(<<PathA>>, <<>>)
    \/ Len(made) < MaxCommits /\ BoundedCommit(Messages)
    \/ Log
    \/ Tick
    \/ \E hash \in DOMAIN objects : LoseObject(hash)

SpecLoss == Init /\ [][NextLoss]_vars

\* add, reset and commit started one beside the other on a repository that
\* earlier commands have filled
NextRace ==
    \/ Before(InitRepo(FALSE))
    \/ Before(AddFiles(<<PathA>>, <<>>))
    \/ Before(BoundedCommit({"first"}))
    \/ \E p \in Procs :
          \/ Open(p, "add", <<PathB>>)
          \/ Open(p, "reset", <<PathA>>)
          \/ Open(p, "commit", <<"first">>)
          \/ CommitReadParent(p)
          \/ CommitStore(p)
          \/ CommitTruncateRef(p)
          \/ CommitWriteRef(p)
          \/ AddStage(p)
          \/ TruncateIndex(p)
          \/ WriteIndex(p)
    \/ Tick

SpecRace == InitStaging /\ [][NextRace]_vars

\* init with and without a path, started in the root and in sub, next to the
\* commands that fill the repository of the root
InitCalls ==
    {<<<<>>, None>>, <<<<>>, Some(<<>>)>>, <<<<>>, Some(Sub)>>, <<Sub, None>>, <<Sub, Some(<<>>)>>}

NextInit ==
    \/ \E call \in InitCalls, bare \in BOOLEAN : InitAt(call[1], call[2], bare)
    \/ AddFiles(<<PathA>>, <<>>)
    \/ BoundedCommit({"first"})
    \/ \E name \in {<<T("dev")>>} : CreateBranch(name)

SpecInit == Init /\ [][NextInit]_vars

\* branch names for a repository whose user also names ../../index, the name
\* that climbs from refs/heads to the index file
ClimbNames == {<<T("main")>>, <<T("dev")>>,
               <<T(".."), T("/"), T(".."), T("/"), T("index")>>}

\* the branch commands with names that climb out of refs/heads, next to the
\* commands that stage and commit
NextClimb ==
    \/ InitRepo(FALSE)
    \/ AddFiles(<<PathA>>, <<>>)
    \/ BoundedCommit({"first"})
    \/ Log
    \/ \E name \in ClimbNames : CreateBranch(name)
    \/ \E name \in ClimbNames, force \in BOOLEAN : DeleteBranch(name, force)
    \/ \E old \in ClimbNames, new \in ClimbNames : RenameBranch(old, new)
    \/ \E name \in ClimbNames : Checkout(name)

SpecClimb == Init /\ [][NextClimb]_vars

\* a working tree for the ignore filter: a plain file, a file whose name holds
\* the name of the metadata directory, a log file and a file in a directory
NotesFile == <<T("notes"), T(".bloc"), T(".txt")>>
LogFile == <<T("debug"), T(".log")>>
BuildFile == <<T("build"), T("/"), T("output"), T(".txt")>>
LoggerFile == <<T("debug"), T(".log"), T("ger")>>
StarFile == <<T("star"), T("*"), T(".log"), T(".txt")>>
IgnoreTree == (PathA :> Some(Text("hello"))) @@ (NotesFile :> Some(Text("bye")))
                @@ (LogFile :> Some(Text("bye"))) @@ (BuildFile :> Some(Text("")))
                @@ (LoggerFile :> Some(Text("bye"))) @@ (StarFile :> Some(Text("")))

\* the ignore files: none, comments and blank lines only, one pattern
IgnoreFiles ==
    {None,
     Some(<<<<T("#"), T(" "), T("build"), T("/")>>, <<T(" ")>>>>),
     Some(<<<<T("*"), T(".log")>>>>),
     Some(<<<<T("build"), T("/")>>>>)}

\* the argument lists of add and reset for the ignore filter
IgnoreArgs == {<<PathA>>, <<NotesFile>>, <<LogFile>>, <<HeadFile>>, <<IgnoreFile>>,
               <<LoggerFile>>, <<StarFile>>, <<<<T("build")>>>>, <<<<T(".")>>>>}

\* two orders WalkDir yields the files below the working root in
IgnoreWalks ==
    LET dot(p) == <<T("."), T("/")>> \o p
        walk == <<BuildFile, dot(HeadFile), dot(IgnoreFile), dot(PathA), dot(LogFile),
                  dot(LoggerFile), dot(StarFile), dot(NotesFile), dot(BuildFile)>>
    IN  {walk, [i \in DOMAIN walk |-> walk[Len(walk) + 1 - i]]}

InitIgnore == InitWith(IgnoreTree)

\* staging through the ignore filter, while the user edits the ignore file
NextIgnore ==
    \/ InitRepo(FALSE)
    \/ \E content \in IgnoreFiles : WriteIgnore(content)
    \/ \E files \in IgnoreArgs : \E walk \in IgnoreWalks : AddFiles(files, walk)
    \/ \E files \in IgnoreArgs : ResetFiles(files)
    \/ Status
    \/ Tick

SpecIgnore == InitIgnore /\ [][NextIgnore]_vars

\* the object store under write_object and read_object, next to the commands
\* that write objects
NextStore ==
    \/ InitRepo(FALSE)
    \/ \E content \in Contents : WriteObject(content)
    \/ \E content \in Contents : ReadObject(hash_object(content))
    \/ \E files \in FileArgs : \E walk \in WalkOrders(files) : AddFiles(files, walk)
    \/ ResetFiles(<<PathA>>)
    \/ BoundedCommit({"first"})

SpecStore == Init /\ [][NextStore]_vars

-----------------------------------------------------------------------------
(* The properties *)

\* the ref file a branch name resolves to holds text
IsRefFile(rf, name) == ~RefTarget(name).dir /\ PathExists(rf, name)

\* the branch HEAD names
CurrentBranch == get_current_branch(HEAD)

\* C1: after a commit command with a non-empty staging index returns
\* successfully, the index is empty in memory and as persisted, the current
\* branch's ref holds the hash of the new commit, and the parent of the new
\* commit is the hash that ref held just before the command, or absent when
\* the branch had no ref file yet.
C1_CommitPostState ==
    [][\A message \in Messages : \A order \in Orders(DOMAIN LoadIndex) :
          LET r == commit(message, order)
              before == ReadToString(refs, CurrentBranch)
              after == ReadToString(refs', CurrentBranch)
          IN  (Commit(message, order) /\ LoadIndex # EmptyIndex /\ r.status = "ok")
              => /\ r.index = EmptyIndex
                 /\ IndexFromJson(indexFile') = EmptyIndex
                 /\ after.some
                 /\ HasObject(objects', after.v)
                 /\ after.v = hash_object(objects'[after.v])
                 /\ CommitFromJson(objects'[after.v]).some
                 /\ CommitFromJson(objects'[after.v]).v.message = message
                 /\ CommitFromJson(objects'[after.v]).v.parent =
                       (IF IsRefFile(refs, CurrentBranch) THEN Some(before.v) ELSE None)
      ]_vars

\* a second commit on a branch: its ref holds a commit that has a parent, and
\* the persisted index is empty
C1_Witness ==
    /\ CanOpen
    /\ IndexFromJson(indexFile) = EmptyIndex
    /\ \E h \in CommitHashes(objects) :
          /\ ReadToString(refs, CurrentBranch) = Some(h)
          /\ CommitFromJson(objects[h]).v.parent.some
          /\ HasObject(objects, CommitFromJson(objects[h]).v.parent.v)

\* C2: delete_branch(name, force) never removes the ref file of the branch
\* HEAD names, with force and without: it returns Ok and leaves every ref
\* and HEAD as they were.
C2_DeleteKeepsCurrent ==
    [][\A name \in Names, force \in BOOLEAN :
          (/\ DeleteBranch(name, force)
           /\ IsRefFile(refs, CurrentBranch)
           /\ IsRefFile(refs, name)
           /\ RefTarget(name) = RefTarget(CurrentBranch))
          => /\ delete_branch(name, force).status \in {"ok", "soft"}
             /\ refs' = refs
             /\ HEAD' = HEAD
      ]_vars

\* C3: checkout(name) of a name that is not the name of an existing branch
\* ref file (the empty string is one) returns Ok after reporting the failure
\* and leaves the content of HEAD byte for byte as it was.
C3_CheckoutMissingKeepsHead ==
    [][\A name \in Names :
          (Checkout(name) /\ ~IsRefFile(refs, name))
          => /\ checkout(name).status = "soft"
             /\ HEAD' = HEAD
      ]_vars

\* C4: on a branch built by N successful commits made one after the other in
\* a freshly initialised repository, log visits exactly N commits, newest
\* first, each the parent of the one before it, and the i-th commit visited
\* carries the message and the author given when it was made.
C4_LogVisitsHistory ==
    (CanOpen /\ linear) =>
        LET out == log(refs, HEAD, objects)
            N == Len(made)
        IN  /\ out.some
            /\ Len(out.v) = N
            /\ \A i \in 1..N :
                  /\ out.v[i].commit.message = made[N + 1 - i].message
                  /\ out.v[i].commit.author = made[N + 1 - i].author
                  /\ out.v[i].commit.parent =
                        (IF i < N THEN Some(out.v[i + 1].hash) ELSE None)

\* two commits with different messages, made under different user names, and
\* log prints both
C4_Witness ==
    /\ CanOpen /\ linear
    /\ Len(made) = 2
    /\ made[1].message # made[2].message
    /\ made[1].author # made[2].author
    /\ log(refs, HEAD, objects).some
    /\ Len(log(refs, HEAD, objects).v) = 2

\* C5: for every byte content C, read_object(write_object(C)) returns exactly
\* C, whatever the store already holds.
C5_ReadBackWritten ==
    CanOpen =>
        \A content \in Contents :
            LET written == write_object(objects, content)
            IN  read_object(written.objects, written.hash) = Some(content)

\* a store that holds a blob of add, a commit and bytes only write_object
\* stores (add refuses what is not UTF-8)
C5_Witness ==
    /\ HasObject(objects, hash_object(Binary))
    /\ HasObject(objects, hash_object(Text("hello")))
    /\ CommitHashes(objects) # {}
    /\ read_object(objects, hash_object(Binary)) = Some(Binary)

\* C6: write_object is idempotent: a second call with the same content
\* returns the hash the first call returned and leaves the store as the first
\* call left it, the same hashes with the same bytes.
C6_WriteIdempotent ==
    [][\A content \in Contents :
          WriteObject(content) =>
              LET first == write_object(objects, content)
                  second == write_object(objects', content)
              IN  /\ objects' = first.objects
                  /\ second.hash = first.hash
                  /\ second.objects = objects'
                  /\ DOMAIN second.objects = DOMAIN objects'
      ]_vars

\* write_object has stored two contents next to a blob of add
C6_Witness ==
    /\ HasObject(objects, hash_object(Binary))
    /\ HasObject(objects, hash_object(Text("\n")))
    /\ HasObject(objects, hash_object(Text("hello")))
    /\ LoadIndex # EmptyIndex

C8_HeadNamesBranch ==
    CanOpen =>
        /\ StartsWith(HEAD, <<T("ref: "), T("refs/heads/")>>)
        /\ get_current_branch(HEAD) # <<T("(detached HEAD)")>>
        /\ ~RefTarget(CurrentBranch).dir

\* C9: reset_files on a staged path removes exactly that entry and leaves
\* every other staged entry (path, hash, mode, size, mtime) as it was;
\* reset_files on a path that was never staged returns Ok after the warning
\* "not in staging area" and leaves the entries of the index as they were.
C9_ResetFrame ==
    CanOpen =>
        \A files \in StagingArgs :
            LET before == LoadIndex
                r == reset_files(files)
                after == IndexFromJson(r.indexFile)
                named == {files[i] : i \in DOMAIN files}
            IN  /\ DOMAIN after = DOMAIN before \ named
                /\ \A path \in DOMAIN after : after[path] = before[path]
                /\ r.index = after
                /\ (named \cap DOMAIN before = {}) =>
                      /\ r.status = "soft"
                      /\ r.detail = "not in staging area"
                      /\ after = before
                /\ r.status \in {"ok", "soft"}

\* a.txt and b.txt were staged, a.txt was reset: only the entry of b.txt is
\* left, and nothing was committed
C9_Witness ==
    /\ CanOpen
    /\ DOMAIN LoadIndex = {PathB}
    /\ HasObject(objects, hash_object(Text("hello")))
    /\ CommitHashes(objects) = {}
    /\ LoadIndex[PathB].mtime < now

\* C10: opening a repository succeeds for both layouts init produces, the
\* directory .bloc and the bare markers HEAD and config at the root; it fails
\* with NotFound only when neither is there; right after init with bare = true
\* it succeeds and loads the config init wrote.
C10_OpenBothLayouts ==
    /\ is_repo => OpenResult = "ok"
    /\ OpenResult = "NotFound" => ~is_repo
    /\ is_bare_repo => load_config = bareRoot.v.config

\* the directory init is asked to work in: the path given, seen from cwd
InitTarget(cwd, path) == IF path.some THEN cwd \o path.v ELSE cwd

\* the metadata root of a directory (the directory itself when bare, its .bloc
\* otherwise) holds HEAD and config
HasMetadata(dir, bare) ==
    /\ Layout(dir).some
    /\ IF bare THEN Layout(dir).v.bare ELSE Layout(dir).v.bloc

\* C11: init on a target whose metadata root already contains HEAD or config
\* fails with AlreadyExists, and HEAD, config, index, every branch ref and
\* every object of the repository that is there are left as they were.
C11_InitExistingFails ==
    [][\A call \in InitCalls, bare \in BOOLEAN :
          (/\ InitAt(call[1], call[2], bare)
           /\ HasMetadata(InitTarget(call[1], call[2]), bare))
          => /\ init(call[1], call[2], bare).status = "AlreadyExists"
             /\ UNCHANGED vars
      ]_vars

\* C12: create_branch(name) returns Ok and changes no ref file and not HEAD in
\* both soft-failure cases: (a) a ref file for name exists already, and the
\* hash in it stays; (b) the branch HEAD names has no ref file yet, and no
\* ref file for name is created.
C12_CreateBranchSoft ==
    CanOpen =>
        \A name \in Names :
            (IsRefFile(refs, name) \/ ~IsRefFile(refs, CurrentBranch)) =>
                LET r == create_branch(name)
                IN  /\ r.status = "soft"
                    /\ r.refs = refs
                    /\ r.HEAD = HEAD
                    /\ ReadToString(r.refs, name) = ReadToString(refs, name)

\* main and dev both have a ref file, with different commits: create_branch
\* of either name is case (a)
C12_Witness ==
    /\ CanOpen
    /\ IsRefFile(refs, <<T("main")>>)
    /\ IsRefFile(refs, <<T("dev")>>)
    /\ refs["main"] # refs["dev"]
    /\ create_branch(<<T("dev")>>).detail = "already exists"

C14_DeleteBranchEffect ==
    CanOpen =>
        \A name \in Names, force \in BOOLEAN :
            LET r == delete_branch(name, force)
            IN  /\ ~force =>
                      /\ r.status = "soft"
                      /\ r.refs = refs
                      /\ r.HEAD = HEAD
                /\ (/\ force
                    /\ IsRefFile(refs, name)
                    /\ RefTarget(name) # RefTarget(CurrentBranch))
                   => /\ r.status = "ok"
                      /\ ~IsRefFile(r.refs, name)
                      /\ \A f \in DOMAIN refs :
                            f # RefTarget(name).file => r.refs[f] = refs[f]
                      /\ DOMAIN r.refs = DOMAIN refs
                      /\ r.HEAD = HEAD
                      /\ r.indexFile = indexFile
                      /\ r.index = LoadIndex
                      /\ r.objects = objects

\* main was deleted with --force while dev was checked out: dev keeps its ref,
\* the commits and the staged entry are still there
C14_Witness ==
    /\ CanOpen
    /\ ~linear
    /\ CurrentBranch = <<T("dev")>>
    /\ IsRefFile(refs, <<T("dev")>>)
    /\ ~IsRefFile(refs, <<T("main")>>)
    /\ Cardinality(CommitHashes(objects)) = 2
    /\ LoadIndex # EmptyIndex

\* C15: when the ref for old exists and no ref for new exists,
\* rename_branch(old, new) leaves the ref for new with exactly the hash the
\* ref for old held, removes the ref for old, and rewrites HEAD to name new
\* if and only if HEAD named old before the call, so that the current branch
\* keeps its head commit; otherwise HEAD is unchanged.
C15_RenameMovesRefAndHead ==
    CanOpen =>
        \A old \in Names, new \in Names :
            (/\ IsRefFile(refs, old)
             /\ ~RefTarget(new).dir
             /\ ~IsRefFile(refs, new)) =>
                LET r == rename_branch(old, new)
                IN  /\ r.status = "ok"
                    /\ ReadToString(r.refs, new) = ReadToString(refs, old)
                    /\ ~IsRefFile(r.refs, old)
                    /\ IF RefTarget(CurrentBranch) = RefTarget(old)
                       THEN /\ RefTarget(get_current_branch(r.HEAD)) = RefTarget(new)
                            /\ ReadToString(r.refs, get_current_branch(r.HEAD))
                                  = ReadToString(refs, CurrentBranch)
                       ELSE r.HEAD = HEAD

\* C16: rename_branch(old, new) returns Ok and leaves every ref file and HEAD
\* as they were when the ref for old does not exist or the ref for new exists
\* already (old = new for an existing branch is one such case).
C16_RenameSoft ==
    CanOpen =>
        \A old \in Names, new \in Names :
            (~IsRefFile(refs, old) \/ IsRefFile(refs, new)) =>
                LET r == rename_branch(old, new)
                IN  /\ r.status = "soft"
                    /\ r.refs = refs
                    /\ r.HEAD = HEAD

\* C17: checkout of an existing branch only moves the pointer: it returns Ok,
\* afterwards HEAD names that branch, and the ref files, the object store, the
\* index (in memory and persisted) and the working tree are as they were.
C17_CheckoutPointerMove ==
    /\ [](CanOpen =>
            \A name \in Names :
                IsRefFile(refs, name) =>
                    LET r == checkout(name)
                    IN  /\ r.status = "ok"
                        /\ get_current_branch(r.HEAD) = name
                        /\ r.refs = refs
                        /\ r.objects = objects
                        /\ r.indexFile = indexFile
                        /\ r.index = LoadIndex)
    /\ [][\A name \in Names :
            (Checkout(name) /\ IsRefFile(refs, name))
            => /\ get_current_branch(HEAD') = name
               /\ UNCHANGED <<refs, objects, indexFile, wt, blocignore>>
       ]_vars

C17_Witness ==
    /\ CanOpen
    /\ HEAD = HeadContent(<<T("dev")>>)
    /\ IsRefFile(refs, <<T("dev")>>)
    /\ IsRefFile(refs, <<T("main")>>)
    /\ LoadIndex # EmptyIndex

\* the lines of list_branches that carry the mark of the current branch
Marked == {e \in list_branches : e.current}

\* C18 (as stated): in every reachable repository state list_branches
\* enumerates every ref file under refs/heads and marks as current exactly one
\* of them, the one whose name equals the branch resolved from HEAD.
C18_ListMarksExactlyOne ==
    CanOpen =>
        /\ {e.name : e \in list_branches} = {f \in DOMAIN refs : refs[f].some}
        /\ Cardinality(Marked) = 1
        /\ \A e \in Marked : Trim(HEAD) = HeadContent(<<T(e.name)>>)

\* C18 (amended): in every reachable repository state list_branches
\* enumerates every ref file under refs/heads, once each, and marks as current
\* exactly the entries whose name equals the branch resolved from HEAD: at most
\* one, and none when no ref file has that name.
C18_ListMarksCurrent ==
    CanOpen =>
        /\ {e.name : e \in list_branches} = {f \in DOMAIN refs : refs[f].some}
        /\ Cardinality(list_branches) = Cardinality({f \in DOMAIN refs : refs[f].some})
        /\ \A e \in list_branches :
              e.current <=> Trim(HEAD) = HeadContent(<<T(e.name)>>)
        /\ Cardinality(Marked) <= 1
        /\ (~\E f \in DOMAIN refs : refs[f].some /\ <<T(f)>> = CurrentBranch)
              => Marked = {}

C18_Witness ==
    /\ CanOpen
    /\ list_branches = {[name |-> "dev", current |-> TRUE],
                        [name |-> "main", current |-> FALSE]}

\* C19: commit with an empty staging index is a soft failure: it returns Ok
\* after its message, writes no object, creates or changes no branch ref, and
\* leaves HEAD and the persisted index as they were.
C19_CommitEmptySoft ==
    (CanOpen /\ LoadIndex = EmptyIndex) =>
        \A message \in Messages :
            LET r == commit(message, <<>>)
            IN  /\ r.status = "soft"
                /\ r.detail = "nothing to commit"
                /\ ~r.wrote
                /\ r.objects = objects
                /\ r.refs = refs
                /\ r.HEAD = HEAD
                /\ r.indexFile = indexFile

C19_Witness ==
    /\ CanOpen
    /\ LoadIndex = EmptyIndex
    /\ IsRefFile(refs, CurrentBranch)
    /\ CommitHashes(objects) # {}
    /\ commit("first", <<>>).status = "soft"

\* the positions in the history of the commits whose object is not in the store
MissingCommits == {i \in 1..Len(made) : ~HasObject(objects, made[i].hash)}

\* the newest of them, the first one log comes to
NewestMissing == CHOOSE i \in MissingCommits : \A j \in MissingCommits : j <= i

\* C20: when an object on the parent chain is missing from the store, log
\* stops silently: it returns Ok and signals no error, and it has visited
\* exactly the commits that precede the missing one in child-to-ancestor
\* order, newest first.
C20_LogStopsAtMissing ==
    (CanOpen /\ linear /\ MissingCommits # {}) =>
        LET out == log(refs, HEAD, objects)
            N == Len(made)
            k == NewestMissing
        IN  /\ out.some
            /\ Len(out.v) = N - k
            /\ \A i \in 1..(N - k) :
                  /\ out.v[i].hash = made[N + 1 - i].hash
                  /\ out.v[i].commit.message = made[N + 1 - i].message
                  /\ out.v[i].commit.parent.some
                  /\ out.v[i].commit.parent.v = made[N - i].hash

\* the root commit of a history of two is gone and log prints the head commit
C20_Witness ==
    /\ CanOpen /\ linear
    /\ Len(made) = 2
    /\ MissingCommits = {1}
    /\ log(refs, HEAD, objects) # None
    /\ Len(log(refs, HEAD, objects).v) = 1

\* the walk of log from one commit object, with room for one step more than
\* there are commit objects in the store
WalkFrom(hash) == LogLoop(objects, hash, Cardinality(CommitHashes(objects)) + 1)

\* C21: log always terminates: in every reachable repository state, following
\* parent links from the ref of the current branch, and from any commit object
\* of the store, reaches a commit with no parent (or a missing object) after at
\* most as many steps as there are commit objects in the store, and visits no
\* commit twice: no reachable state contains a cycle of parent links.
C21_LogTerminates ==
    CanOpen =>
        /\ \A hash \in CommitHashes(objects) :
              LET run == WalkFrom(hash)
              IN  /\ run.ok
                  /\ Len(run.printed) <= Cardinality(CommitHashes(objects))
                  /\ \A i, j \in DOMAIN run.printed :
                        run.printed[i].hash = run.printed[j].hash => i = j
                  /\ \A i \in DOMAIN run.printed :
                        run.printed[i].commit.parent.some =>
                            /\ i < Len(run.printed)
                            /\ run.printed[i + 1].hash = run.printed[i].commit.parent.v
        /\ IsRefFile(refs, CurrentBranch) =>
              /\ log(refs, HEAD, objects).some
              /\ Len(log(refs, HEAD, objects).v) <= Cardinality(CommitHashes(objects))

\* two branches on a history of two commits, and log walks both commits
C21_Witness ==
    /\ CanOpen
    /\ ~linear
    /\ IsRefFile(refs, <<T("main")>>)
    /\ IsRefFile(refs, <<T("dev")>>)
    /\ Cardinality(CommitHashes(objects)) = 2
    /\ log(refs, HEAD, objects).some
    /\ Len(log(refs, HEAD, objects).v) = 2

\* the files of an add whose bytes are not UTF-8 text
Undecodable(files, walk) ==
    LET cands == AllCandidates(files, walk)
    IN  {cands[i] : i \in {j \in DOMAIN cands : ~FileContent(cands[j]).utf8}}

\* C22: adding a file whose content cannot be decoded as text fails the add
\* with a hard error (an Err, not a soft Ok), and that path does not become a
\* staged entry, neither in memory nor in the persisted index.
C22_AddUndecodableFails ==
    CanOpen =>
        \A files \in StagingArgs :
            Undecodable(files, <<>>) # {} =>
                LET r == add_files(files, <<>>)
                IN  /\ r.status = "err"
                    /\ r.indexFile = indexFile
                    /\ \A path \in Undecodable(files, <<>>) :
                          /\ RelativePath(path) \notin DOMAIN r.index
                          /\ RelativePath(path) \notin DOMAIN IndexFromJson(r.indexFile)

\* a.txt is staged; an add of b.txt and c.bin has written the blob of b.txt
\* and failed at c.bin
C22_Witness ==
    /\ CanOpen
    /\ DOMAIN LoadIndex = {PathA}
    /\ HasObject(objects, hash_object(Text("bye")))
    /\ add_files(<<PathB, PathC>>, <<>>).status = "err"
    /\ PathB \in DOMAIN add_files(<<PathB, PathC>>, <<>>).index

\* a handler result that is an Ok(()), with or without a message of failure
Succeeded(r) == r.status \in {"ok", "soft"}

\* C23: the staging index survives process exit: after every add, reset or
\* commit that returns successfully, the persisted index file decodes to
\* exactly the in-memory index at the end of that command, so that the index
\* the next command loads when it opens the repository equals it.
C23_IndexSurvivesExit ==
    /\ [](CanOpen =>
            /\ \A files \in StagingArgs :
                  /\ Succeeded(add_files(files, <<>>)) =>
                        IndexFromJson(add_files(files, <<>>).indexFile)
                            = add_files(files, <<>>).index
                  /\ Succeeded(reset_files(files)) =>
                        IndexFromJson(reset_files(files).indexFile)
                            = reset_files(files).index
            /\ \A message \in Messages, order \in Orders(DOMAIN LoadIndex) :
                  Succeeded(commit(message, order)) =>
                      IndexFromJson(commit(message, order).indexFile)
                          = commit(message, order).index)
    /\ [][/\ \A files \in StagingArgs :
               /\ (AddFiles(files, <<>>) /\ Succeeded(add_files(files, <<>>)))
                     => LoadIndex' = add_files(files, <<>>).index
               /\ (ResetFiles(files) /\ Succeeded(reset_files(files)))
                     => LoadIndex' = reset_files(files).index
           /\ \A message \in Messages, order \in Orders(DOMAIN LoadIndex) :
               (Commit(message, order) /\ Succeeded(commit(message, order)))
                     => LoadIndex' = commit(message, order).index
       ]_vars

\* after a commit, both text files were staged again in two adds with the
\* clock advanced in between, and the index opened next holds both
C23_Witness ==
    /\ CanOpen
    /\ CommitHashes(objects) # {}
    /\ DOMAIN LoadIndex = {PathA, PathB}
    /\ LoadIndex[PathA].mtime # LoadIndex[PathB].mtime

\* invocation p was a commit and has returned Ok after writing
CommitDone(p) ==
    /\ procs.run[p].pc = "done"
    /\ procs.run[p].cmd = "commit"
    /\ procs.run[p].status = "ok"

\* p and q are two commits that read the same head as parent and have both
\* completed, q being the one that wrote the branch's ref last
RacedCommits(p, q) ==
    /\ p # q
    /\ CommitDone(p) /\ CommitDone(q)
    /\ procs.run[p].parent = procs.run[q].parent
    /\ procs.run[p].branch = procs.run[q].branch
    /\ procs.refWriter = Some(q)

\* the commit is one of those log walks from the ref of the current branch
OnChain(hash) ==
    /\ log(refs, HEAD, objects).some
    /\ \E i \in DOMAIN log(refs, HEAD, objects).v : log(refs, HEAD, objects).v[i].hash = hash

\* the object of p's commit is in the store as p wrote it
CommitStored(p) ==
    /\ HasObject(objects, procs.run[p].hash)
    /\ CommitFromJson(objects[procs.run[p].hash]).some
    /\ CommitFromJson(objects[procs.run[p].hash]).v.parent = procs.run[p].parent

\* C24 (as stated): when two commits on the same branch run concurrently, read
\* the same previous head as parent and both complete, the last writer wins:
\* the branch ref finally holds the hash written last, and the other commit's
\* object remains in the store but is not on the branch's parent chain.
C24_CommitRaceLastWins ==
    \A p \in Procs, q \in Procs :
        RacedCommits(p, q) =>
            /\ ReadToString(refs, procs.run[q].branch) = Some(procs.run[q].hash)
            /\ CommitStored(p) /\ CommitStored(q)
            /\ OnChain(procs.run[q].hash)
            /\ ~OnChain(procs.run[p].hash)

\* C24 (amended): as stated, for two commits whose records differ (in message,
\* timestamp or tree); two commits that build the same record are one object,
\* which the ref then names.
C24_CommitRaceLastWinsDistinct ==
    \A p \in Procs, q \in Procs :
        RacedCommits(p, q) =>
            /\ ReadToString(refs, procs.run[q].branch) = Some(procs.run[q].hash)
            /\ CommitStored(p) /\ CommitStored(q)
            /\ OnChain(procs.run[q].hash)
            /\ IF procs.run[p].hash # procs.run[q].hash
               THEN ~OnChain(procs.run[p].hash)
               ELSE OnChain(procs.run[p].hash)

\* both commits read the existing head as parent, the clock advanced between
\* them, both have completed and the first writer's commit is off the chain
C24_Witness ==
    /\ RacedCommits(1, 2)
    /\ procs.run[1].parent.some
    /\ procs.run[1].hash # procs.run[2].hash
    /\ CommitStored(1)
    /\ ~OnChain(procs.run[1].hash)
    /\ Len(log(refs, HEAD, objects).v) = 2

\* invocation p has returned Ok after saving its copy of the index
Saved(p) ==
    /\ procs.run[p].pc = "done"
    /\ procs.run[p].cmd \in {"add", "commit"} => procs.run[p].status = "ok"
    /\ procs.run[p].cmd = "reset" => procs.run[p].status \in {"ok", "soft"}

\* p and q are two staging commands that had both opened the repository before
\* either saved, and q saved last
IndexRace(p, q) ==
    /\ p # q
    /\ Saved(p) /\ Saved(q)
    /\ p \in procs.run[q].beside \/ q \in procs.run[p].beside
    /\ procs.indexWriter = Some(q)

\* the paths whose entry invocation p put into its copy of the index
StagedBy(p) ==
    {path \in DOMAIN procs.run[p].index :
        \/ path \notin DOMAIN procs.run[p].loaded
        \/ procs.run[p].index[path] # procs.run[p].loaded[path]}

\* C25: when two staging commands (add, reset, commit) run concurrently, the
\* last writer of the index file wins: each loaded the index when it opened
\* and writes back its whole copy, so the persisted index ends up equal to
\* the last writer's copy, and the entries staged by the other invocation are
\* lost (a path the last writer did not stage itself is as it was in the
\* index the last writer loaded).
C25_IndexRaceLastWins ==
    \A p \in Procs, q \in Procs :
        IndexRace(p, q) =>
            /\ IndexValid(indexFile)
            /\ LoadIndex = procs.run[q].index
            /\ \A path \in StagedBy(p) \ StagedBy(q) :
                  path \in DOMAIN LoadIndex =>
                      /\ path \in DOMAIN procs.run[q].loaded
                      /\ LoadIndex[path] = procs.run[q].loaded[path]

\* C26: after every command that writes HEAD (init, a successful checkout, a
\* rename of the current branch) the content of the HEAD file is exactly
\* "ref: refs/heads/<branch>" followed by one newline character.
C26_HeadEndsWithNewline ==
    /\ [](CanOpen =>
            /\ \A name \in Names :
                  (IsRefFile(refs, name) /\ checkout(name).status = "ok")
                      => checkout(name).HEAD = InitHeadContent(name)
            /\ \A old \in Names, new \in Names :
                  (rename_branch(old, new).status = "ok" /\ CurrentBranch = old)
                      => rename_branch(old, new).HEAD = InitHeadContent(new))
    /\ [][(InitRepo(FALSE) /\ HEAD' # HEAD)
            => HEAD' = InitHeadContent(config'.core.default_branch)]_vars

\* what a fresh metadata root of the root directory holds: a config whose
\* core.bare is the argument, a HEAD naming the default branch of that config,
\* and in non-bare mode no ref file, no object and an empty persisted index
FreshRoot(bare, head, cfg, file, rf, store) ==
    /\ cfg.core.bare = bare
    /\ get_current_branch(head) = cfg.core.default_branch
    /\ ~bare => /\ \A f \in RefFiles : rf[f] = None
                /\ store = <<>>
                /\ file = IndexToJson(EmptyIndex)

\* C27: after a successful init(path, bare) the metadata root of the
\* directory the call names (the directory itself when bare, its .bloc
\* otherwise) is there with HEAD and config; config's core.bare is the bare
\* argument, HEAD names the config's default branch, and there is no branch
\* ref file and no object; in non-bare mode the persisted index exists and
\* is empty.
C27_InitPostState ==
    [][\A call \in InitCalls, bare \in BOOLEAN :
          (/\ InitAt(call[1], call[2], bare)
           /\ init(call[1], call[2], bare).status = "ok")
          => /\ HasMetadata(InitTarget(call[1], call[2]), bare)'
             /\ InitTarget(call[1], call[2]) = <<>> =>
                   IF bare
                   THEN /\ bareRoot'.some
                        /\ FreshRoot(TRUE, bareRoot'.v.HEAD, bareRoot'.v.config,
                                     indexFile', refs', objects')
                   ELSE FreshRoot(FALSE, HEAD', config', indexFile', refs', objects')
      ]_vars

RECURSIVE TreeLines(_)
\* the lines of a tree descriptor: the text between the "\n" serialize_tree
\* joins its entries with
TreeLines(tree) ==
    IF tree = <<>> THEN <<>>
    ELSE IF \E i \in DOMAIN tree : tree[i] = T("\n")
    THEN LET i == CHOOSE k \in DOMAIN tree :
                     tree[k] = T("\n") /\ \A j \in 1..(k - 1) : tree[j] # T("\n")
         IN  <<SubSeq(tree, 1, i - 1)>> \o TreeLines(SubSeq(tree, i + 1, Len(tree)))
    ELSE <<tree>>

\* the line serialize_tree writes for one staged entry
TreeLine(idx, path) == path \o <<T(":")>> \o idx[path].hash

\* the commit record a successful commit() left under the current branch
Committed(r) ==
    CommitFromJson(r.objects[Trim(ReadToString(r.refs, CurrentBranch).v)]).v

\* C28: the tree descriptor of the commit a successful commit() records
\* lists, as path:hash lines, exactly the entries staged at commit time: one
\* line per staged path with its content hash, and no line for a path that
\* is not staged, a path committed earlier and not staged again included.
C28_TreeIsStagedEntries ==
    CanOpen =>
        \A message \in Messages, order \in Orders(DOMAIN LoadIndex) :
            LET r == commit(message, order) IN
            r.status = "ok" =>
                LET lines == TreeLines(Committed(r).tree)
                IN  /\ Len(lines) = Cardinality(DOMAIN LoadIndex)
                    /\ {lines[i] : i \in DOMAIN lines}
                          = {TreeLine(LoadIndex, path) : path \in DOMAIN LoadIndex}

\* a.txt was committed, and b.txt alone is staged for the next commit
C28_Witness ==
    /\ CanOpen
    /\ DOMAIN LoadIndex = {PathB}
    /\ commit("first", <<PathB>>).status = "ok"
    /\ \E h \in CommitHashes(objects) :
          \E i \in DOMAIN TreeLines(CommitFromJson(objects[h]).v.tree) :
              StartsWith(TreeLines(CommitFromJson(objects[h]).v.tree)[i], PathA)

\* paths inside the metadata root, as add_files and WalkDir spell them
MetadataPaths ==
    {HeadFile,
     <<T("."), T("/")>> \o HeadFile,
     <<T(".bloc"), T("/"), T("index")>>,
     <<T("."), T("/"), T(".bloc"), T("/"), T("refs"), T("/"), T("heads"), T("/"), T("main")>>}

\* the path names the metadata directory or something below it
InsideMetadata(path) ==
    \/ FileOf(path) = <<T(".bloc")>>
    \/ StartsWith(FileOf(path), <<T(".bloc"), T("/")>>)

\* C29 as stated: should_ignore returns true for every path inside the
\* metadata root, in bare and non-bare mode alike, whatever the ignore file
\* contains and whether it exists.
C29_MetadataAlwaysIgnored ==
    CanOpen =>
        \A is_bare \in BOOLEAN, path \in MetadataPaths :
            should_ignore(is_bare, blocignore, path)

\* C29, amended: in non-bare mode should_ignore returns true for every path
\* inside the metadata root, whatever the ignore file contains and whether
\* it exists.
C29_MetadataIgnoredNonBare ==
    (CanOpen /\ ~config.core.bare) =>
        \A path \in MetadataPaths :
            should_ignore(config.core.bare, blocignore, path)

\* add . has staged working files next to .bloc/HEAD, under an ignore file
\* with a pattern that matches no path of the metadata
C29_Witness ==
    /\ CanOpen
    /\ ~config.core.bare
    /\ blocignore = Some(<<<<T("*"), T(".log")>>>>)
    /\ is_file(HeadFile)
    /\ should_ignore(config.core.bare, blocignore, HeadFile)
    /\ PathA \in DOMAIN LoadIndex
    /\ \A path \in DOMAIN LoadIndex : ~InsideMetadata(path)

\* C30: with no ignore file in a non-bare repository, should_ignore returns
\* true only for paths inside the metadata root: a file that is not inside the
\* metadata directory, one whose name merely contains the directory's name
\* included, is not excluded.
C30_NoIgnoreFileOnlyMetadata ==
    (CanOpen /\ ~config.core.bare /\ blocignore = None) =>
        \A path \in Files \cup WalkDir(<<T(".")>>) \cup MetadataPaths :
            should_ignore(config.core.bare, blocignore, path) => InsideMetadata(path)

\* the ignore file holds one pattern of the form *suffix: a leading asterisk,
\* no trailing one
OnlySuffixPattern ==
    /\ blocignore.some
    /\ Len(blocignore.v) = 1
    /\ StartsWith(Trim(blocignore.v[1]), <<T("*")>>)
    /\ ~EndsWith(Trim(blocignore.v[1]), <<T("*")>>)

\* C31: with an ignore file whose only pattern is *suffix, should_ignore
\* excludes a path outside the metadata root if and only if the path ends
\* with suffix: *.log excludes debug.log and does not exclude debug.logger.
C31_SuffixPattern ==
    (CanOpen /\ ~config.core.bare /\ OnlySuffixPattern) =>
        \A path \in Files \cup WalkDir(<<T(".")>>) :
            ~InsideMetadata(path) =>
                (should_ignore(config.core.bare, blocignore, path)
                    <=> EndsWith(path, Tail(Trim(blocignore.v[1]))))

\* C32: in every state the commands reach, every ref file under refs/heads
\* holds exactly one trimmed hash string, and that hash is the hash of a
\* commit object present in the object store.
C32_RefIntegrity ==
    blocDir =>
        \A f \in DOMAIN refs :
            refs[f].some =>
                /\ Len(refs[f].v) = 1
                /\ Trim(refs[f].v) = refs[f].v
                /\ refs[f].v \in CommitHashes(objects)

\* C33: once the branch HEAD names has a ref file, the branch HEAD names has
\* a ref file in every later state: no commit, create_branch, delete_branch
\* (forced or not), rename_branch or checkout leaves HEAD naming a branch
\* whose ref file does not exist.
C33_HeadBranchKeepsRef ==
    [][IsRefFile(refs, get_current_branch(HEAD))
          => IsRefFile(refs', get_current_branch(HEAD'))]_vars

\* C34: commit stores the commit object, then overwrites the current
\* branch's ref, then clears and saves the index.  Wherever a commit that
\* runs alone stops between two of its file-system calls, no ref holds the
\* hash of a commit object that is absent from the store, and the index file
\* is as the commit found it unless the ref holds the hash of the new commit.
C34_CommitWriteOrder ==
    \A p \in Procs :
        LET me == procs.run[p]
        IN  (procs.started = 1 /\ me.pc # "idle" /\ me.cmd = "commit") =>
                /\ \A f \in DOMAIN refs :
                      (refs[f].some /\ refs[f].v # <<>>)
                          => /\ HasObject(objects, refs[f].v)
                             /\ CommitFromJson(objects[refs[f].v]).some
                /\ indexFile # IndexToJson(me.loaded)
                      => /\ me.hash # <<>>
                         /\ ReadToString(refs, CurrentBranch) = Some(me.hash)
                         /\ HasObject(objects, me.hash)

\* a commit that runs alone has stopped inside Index::save: the index file is
\* empty, the ref holds the new commit
C34_Witness ==
    \E p \in Procs :
        /\ procs.started = 1
        /\ procs.run[p].pc = "index_open"
        /\ procs.run[p].cmd = "commit"
        /\ procs.run[p].loaded # EmptyIndex
        /\ indexFile = Truncated
        /\ ReadToString(refs, CurrentBranch) = Some(procs.run[p].hash)

\* what a successful commit leaves alone: HEAD, the ref file of every other
\* branch and the objects that were stored; the ref of the branch HEAD names
\* holds the hash of the commit record, which is in the store
CommitFrame(r) ==
    LET h == Trim(ReadToString(r.refs, CurrentBranch).v)
    IN  /\ r.HEAD = HEAD
        /\ DOMAIN r.refs = DOMAIN refs
        /\ \A f \in DOMAIN refs : f # RefTarget(CurrentBranch).file => r.refs[f] = refs[f]
        /\ \A o \in DOMAIN objects : HasObject(r.objects, o) /\ r.objects[o] = objects[o]
        /\ HasObject(r.objects, h)
        /\ CommitFromJson(r.objects[h]).some
        /\ DOMAIN r.objects \ DOMAIN objects \subseteq {h}

\* C35 as stated: a successful commit changes only the ref of the branch HEAD
\* names; HEAD and the ref file of every other branch are unchanged, and
\* exactly one new object, the commit record, is added to the store.
C35_CommitAddsOneObject ==
    CanOpen =>
        \A message \in Messages, order \in Orders(DOMAIN LoadIndex) :
            LET r == commit(message, order) IN
            r.status = "ok" =>
                /\ CommitFrame(r)
                /\ Cardinality(DOMAIN r.objects \ DOMAIN objects) = 1

\* C35, amended: a successful commit changes only the ref of the branch HEAD
\* names; HEAD and the ref file of every other branch are unchanged, and
\* exactly one new object, the commit record, is added to the store unless
\* that very record is stored already, and then none is.
C35_CommitAddsItsRecord ==
    CanOpen =>
        \A message \in Messages, order \in Orders(DOMAIN LoadIndex) :
            LET r == commit(message, order)
                h == Trim(ReadToString(r.refs, CurrentBranch).v)
            IN  r.status = "ok" =>
                    /\ CommitFrame(r)
                    /\ Cardinality(DOMAIN r.objects \ DOMAIN objects)
                          = (IF HasObject(objects, h) THEN 0 ELSE 1)

\* main and dev both have a ref file, and a commit on the current branch
\* would store a record that is new
C35_Witness ==
    /\ CanOpen
    /\ LoadIndex # EmptyIndex
    /\ IsRefFile(refs, <<T("main")>>) /\ IsRefFile(refs, <<T("dev")>>)
    /\ \E order \in Orders(DOMAIN LoadIndex) :
          LET r == commit("first", order)
          IN  /\ r.status = "ok"
              /\ Cardinality(DOMAIN r.objects \ DOMAIN objects) = 1
              /\ r.refs # refs

\* the files an add processes before the one it fails at: the candidates in
\* front of the first whose bytes are not UTF-8
ProcessedEarlier(files, walk) ==
    LET cands == AllCandidates(files, walk)
        bad == {i \in DOMAIN cands : ~FileContent(cands[i]).utf8}
    IN  {cands[i] : i \in {j \in DOMAIN cands : \A b \in bad : j < b}}

\* C36: when add_files fails on a file of its argument list (a hard error),
\* the persisted index is exactly what it was before the command: none of the
\* files processed earlier in the same invocation has become staged, while the
\* objects written for those earlier files are in the store, next to every
\* object that was there before.
C36_FailedAddKeepsIndex ==
    CanOpen =>
        \A files \in StagingArgs :
            LET r == add_files(files, <<>>)
            IN  r.status = "err" =>
                    /\ r.indexFile = indexFile
                    /\ \A path \in ProcessedEarlier(files, <<>>) :
                          /\ IndexValid(r.indexFile)
                          /\ (RelativePath(path) \in DOMAIN IndexFromJson(r.indexFile))
                                 = (RelativePath(path) \in DOMAIN LoadIndex)
                          /\ HasObject(r.objects, hash_object(FileContent(path)))
                          /\ r.objects[hash_object(FileContent(path))] = FileContent(path)
                    /\ \A h \in DOMAIN objects :
                          HasObject(r.objects, h) /\ r.objects[h] = objects[h]

\* b.txt is neither staged nor stored; an add of b.txt and c.bin fails at
\* c.bin, leaves the index file as it is and the blob of b.txt in the store
C36_Witness ==
    /\ CanOpen
    /\ PathB \notin DOMAIN LoadIndex
    /\ ~HasObject(objects, hash_object(Text("bye")))
    /\ ProcessedEarlier(<<PathB, PathC>>, <<>>) = {PathB}
    /\ add_files(<<PathB, PathC>>, <<>>).status = "err"
    /\ add_files(<<PathB, PathC>>, <<>>).indexFile = indexFile
    /\ HasObject(add_files(<<PathB, PathC>>, <<>>).objects, hash_object(Text("bye")))

====
